---------------------------- MODULE Spec2Model ----------------------------
(***************************************************************************)
(* box_plot_chart: the quartile/outlier statistics (src/src/quartile.rs)   *)
(* and the chart pipeline of BoxPlotChartTool::run (src/src/lib.rs).       *)
(*                                                                         *)
(* An f64 is modelled as an exact rational [n, d] in lowest terms (d > 0), *)
(* or one of the IEEE specials NaN = 0/0, +inf = 1/0, -inf = -1/0.  The    *)
(* arithmetic follows IEEE 754 on the specials (x/0, inf - inf, 0 * inf,   *)
(* log10 of 0 and of a negative number, comparisons with NaN).  Rounding   *)
(* to 53 bits and overflow of finite values are not modelled: the inputs   *)
(* are small whole numbers.                                                *)
(***************************************************************************)
EXTENDS Integers, Sequences, FiniteSets

---------------------------------------------------------------------------
(* Model bounds *)

\* pipeline specification: how many of the Samples the values are drawn from
NumVals == 2
\* pipeline specification: total number of values over all series of a chart
MaxTotal == 7
\* quartile specification: how many of the Samples the values are drawn from
NumQVals == 3
\* quartile specification: longest sample set
MaxQLen == 6

\* the sample values, as whole numbers
Samples == <<-7, 7, 0, 12, 3>>

---------------------------------------------------------------------------
(* f64 *)

Abs(i) == IF i < 0 THEN -i ELSE i

Sign(i) == IF i < 0 THEN -1 ELSE IF i > 0 THEN 1 ELSE 0

RECURSIVE GCD(_, _)
GCD(a, b) == IF b = 0 THEN a ELSE GCD(b, a % b)

\* n/d for d # 0, in lowest terms with a positive denominator
Rat(n, d) ==
    LET g == GCD(Abs(n), Abs(d))
        s == Sign(d)
    IN  [n |-> (s * n) \div g, d |-> (s * d) \div g]

F(i) == [n |-> i, d |-> 1]

NaN == [n |-> 0, d |-> 0]
PosInf == [n |-> 1, d |-> 0]
NegInf == [n |-> -1, d |-> 0]

IsNaN(x) == x.d = 0 /\ x.n = 0
IsInf(x) == x.d = 0 /\ x.n # 0
IsFinite(x) == x.d > 0

FNeg(x) == [n |-> -x.n, d |-> x.d]

FAdd(x, y) ==
    IF IsNaN(x) \/ IsNaN(y) THEN NaN
    ELSE IF IsInf(x) /\ IsInf(y) THEN (IF x.n = y.n THEN x ELSE NaN)
    ELSE IF IsInf(x) THEN x
    ELSE IF IsInf(y) THEN y
    ELSE Rat(x.n * y.d + y.n * x.d, x.d * y.d)

FSub(x, y) == FAdd(x, FNeg(y))

FMul(x, y) ==
    IF IsNaN(x) \/ IsNaN(y) THEN NaN
    ELSE IF IsInf(x) \/ IsInf(y)
         THEN (IF x.n = 0 \/ y.n = 0 THEN NaN
               ELSE [n |-> Sign(x.n) * Sign(y.n), d |-> 0])
    ELSE Rat(x.n * y.n, x.d * y.d)

FDiv(x, y) ==
    IF IsNaN(x) \/ IsNaN(y) THEN NaN
    ELSE IF IsInf(x) THEN (IF IsInf(y) THEN NaN
                           ELSE [n |-> x.n * (IF y.n < 0 THEN -1 ELSE 1), d |-> 0])
    ELSE IF IsInf(y) THEN F(0)
    ELSE IF y.n = 0 THEN (IF x.n = 0 THEN NaN ELSE [n |-> Sign(x.n), d |-> 0])
    ELSE Rat(x.n * y.d, x.d * y.n)

\* x < y; false when either is NaN
FLt(x, y) ==
    IF IsNaN(x) \/ IsNaN(y) THEN FALSE
    ELSE IF IsInf(x) \/ IsInf(y)
         THEN (IF IsInf(x) /\ IsInf(y) THEN x.n < y.n
               ELSE IF IsInf(x) THEN x.n < 0
               ELSE y.n > 0)
    ELSE x.n * y.d < y.n * x.d

FGt(x, y) == FLt(y, x)

\* x <= y; false when either is NaN
FLe(x, y) == ~IsNaN(x) /\ ~IsNaN(y) /\ ~FLt(y, x)

FFloor(x) == IF IsFinite(x) THEN F(x.n \div x.d) ELSE x

FCeil(x) == IF IsFinite(x) THEN F(-((-x.n) \div x.d)) ELSE x

FAbs(x) == [n |-> Abs(x.n), d |-> x.d]

\* the least k with 10^k >= n/d, for n, d > 0
RECURSIVE CeilLog(_, _)
CeilLog(n, d) ==
    IF n > d THEN 1 + CeilLog(n, 10 * d)
    ELSE IF 10 * n <= d THEN CeilLog(10 * n, d) - 1
    ELSE 0

\* x.log10().ceil()
CeilLog10(x) ==
    IF IsNaN(x) \/ x.n < 0 THEN NaN
    ELSE IF x.n = 0 THEN NegInf
    ELSE IF IsInf(x) THEN PosInf
    ELSE F(CeilLog(x.n, x.d))

RECURSIVE IntPow10(_)
IntPow10(k) == IF k = 0 THEN 1 ELSE 10 * IntPow10(k - 1)

\* (10.0_f64).powf(k) for k an integer, an infinity or NaN
Pow10(k) ==
    IF IsNaN(k) THEN NaN
    ELSE IF IsInf(k) THEN (IF k.n > 0 THEN PosInf ELSE F(0))
    ELSE IF k.n >= 0 THEN F(IntPow10(k.n))
    ELSE Rat(1, IntPow10(-k.n))

\* x as usize: NaN and negatives to 0, truncation otherwise; the saturated
\* cast of +inf, usize::MAX, is represented by PosInf
AsUsize(x) ==
    IF IsNaN(x) \/ x.n <= 0 THEN F(0)
    ELSE IF IsInf(x) THEN PosInf
    ELSE F(x.n \div x.d)

---------------------------------------------------------------------------
(* Sequences *)

Indices(s) == 1..Len(s)

\* the longest prefix of s, from index i on, of elements less than bound
RECURSIVE TakeWhileLt(_, _, _)
TakeWhileLt(s, bound, i) ==
    IF i <= Len(s) /\ FLt(s[i], bound)
    THEN <<s[i]>> \o TakeWhileLt(s, bound, i + 1)
    ELSE <<>>

\* the longest prefix of s, from index i on, of elements greater than bound
RECURSIVE TakeWhileGt(_, _, _)
TakeWhileGt(s, bound, i) ==
    IF i <= Len(s) /\ FGt(s[i], bound)
    THEN <<s[i]>> \o TakeWhileGt(s, bound, i + 1)
    ELSE <<>>

\* s with v put before the first element of s that is greater than v
RECURSIVE Insert(_, _)
Insert(s, v) ==
    IF s = <<>> THEN <<v>>
    ELSE IF FLt(v, Head(s)) THEN <<v>> \o s
    ELSE <<Head(s)>> \o Insert(Tail(s), v)

RECURSIVE SortFrom(_, _, _)
SortFrom(s, i, acc) ==
    IF i > Len(s) THEN acc ELSE SortFrom(s, i + 1, Insert(acc, s[i]))

Unsorted(s) == s

\* arr.sort_by(|a, b| a.partial_cmp(b).unwrap()): a stable ascending sort
Sort(s) == SortFrom(s, 1, <<>>)

---------------------------------------------------------------------------
(* quartile.rs *)

\* arr[i] with a 0-based index i
At(arr, i) == arr[i + 1]

InBounds(arr, i) == 0 <= i /\ i < Len(arr)

Midpoint(len) == len \div 2

\* the index of the lower of the two middle values of an even sized array
MedianLowIndex(len) == Midpoint(len) - 1

MedianIndex(len) == Midpoint(len)

UpperMedianIndexOffByOne(len) ==
    IF len % 2 = 0
    THEN Midpoint(len) + Midpoint(len) \div 2 + 1
    ELSE Midpoint(len) + 2 + Midpoint(len) \div 2

UpperMedianIndex(len) ==
    IF len % 2 = 0
    THEN Midpoint(len) + Midpoint(len) \div 2
    ELSE Midpoint(len) + 1 + Midpoint(len) \div 2

LowerMedianIndexNoHalving(len) == Midpoint(len)

LowerMedianIndex(len) == Midpoint(len) \div 2

\* the median of the sorted array arr
Median(arr) ==
    IF Len(arr) % 2 = 0
    THEN FDiv(FAdd(At(arr, MedianLowIndex(Len(arr))), At(arr, MedianIndex(Len(arr)))), F(2))
    ELSE At(arr, MedianIndex(Len(arr)))

\* lower_median - 1.5 * iqr
LowerFence(lower_median, iqr) == FSub(lower_median, FMul(Rat(3, 2), iqr))

\* upper_median + 1.5 * iqr
UpperFence(upper_median, iqr) == FAdd(upper_median, FMul(Rat(3, 2), iqr))

\* arr.iter().take_while(|n| **n < lower_fence)
LowerOutliers(arr, lower_fence) == TakeWhileLt(arr, lower_fence, 1)

\* arr.iter().take_while(|n| **n > upper_fence): a scan from the front of arr
UpperOutliers(arr, upper_fence) == TakeWhileGt(arr, upper_fence, 1)

MinBeforeIndex(arr, lower_outliers) == Len(lower_outliers)

MaxBeforeIndex(arr, upper_outliers) == Len(arr) - Len(upper_outliers) - 1

\* the indices of min_before_lower_fence and max_before_upper_fence
FenceIndices(arr, lower_median, upper_median, iqr) ==
    {MinBeforeIndex(arr, LowerOutliers(arr, LowerFence(lower_median, iqr))),
     MaxBeforeIndex(arr, UpperOutliers(arr, UpperFence(upper_median, iqr)))}

FenceIndicesOf(arr, lower_median, upper_median) ==
    FenceIndices(arr, lower_median, upper_median, FSub(upper_median, lower_median))

\* every index Quartile::new reads the sorted array at; the last two are
\* reached only when the reads of the medians did not panic
QuartileIndices(arr) ==
    (IF Len(arr) % 2 = 0 THEN {MedianLowIndex(Len(arr))} ELSE {})
    \cup {MedianIndex(Len(arr)), UpperMedianIndex(Len(arr)), LowerMedianIndex(Len(arr))}
    \cup (IF InBounds(arr, LowerMedianIndex(Len(arr))) /\ InBounds(arr, UpperMedianIndex(Len(arr)))
          THEN FenceIndicesOf(arr, At(arr, LowerMedianIndex(Len(arr))),
                              At(arr, UpperMedianIndex(Len(arr))))
          ELSE {})

\* Quartile::new from the outlier lists on: the two whisker ends and the struct
Quartile_ends(arr, median, lower_median, upper_median, iqr, lower_fence, upper_fence, lower_outliers, upper_outliers) ==
    [status |-> "ok",
     lower_outliers |-> lower_outliers,
     lower_fence |-> lower_fence,
     min_before_lower_fence |-> At(arr, MinBeforeIndex(arr, lower_outliers)),
     lower_median |-> lower_median,
     median |-> median,
     upper_median |-> upper_median,
     max_before_upper_fence |-> At(arr, MaxBeforeIndex(arr, upper_outliers)),
     upper_fence |-> upper_fence,
     upper_outliers |-> upper_outliers,
     iqr |-> iqr]

\* Quartile::new from the fences on: the outlier lists
Quartile_outliers(arr, median, lower_median, upper_median, iqr, lower_fence, upper_fence) ==
    Quartile_ends(arr, median, lower_median, upper_median, iqr, lower_fence, upper_fence,
                  LowerOutliers(arr, lower_fence), UpperOutliers(arr, upper_fence))

\* Quartile::new from the medians on: iqr and the fences
Quartile_fences(arr, median, lower_median, upper_median, iqr) ==
    Quartile_outliers(arr, median, lower_median, upper_median, iqr,
                      LowerFence(lower_median, iqr), UpperFence(upper_median, iqr))

Quartile_iqr(arr, median, lower_median, upper_median) ==
    Quartile_fences(arr, median, lower_median, upper_median, FSub(upper_median, lower_median))

\* Quartile::new on the sorted array: "panic" for an index out of bounds
Quartile_sorted(arr) ==
    IF \E i \in QuartileIndices(arr) : ~InBounds(arr, i) THEN [status |-> "panic"]
    ELSE Quartile_iqr(arr, Median(arr), At(arr, LowerMedianIndex(Len(arr))),
                      At(arr, UpperMedianIndex(Len(arr))))

\* Quartile::new: status "err" for the Err result, "ok" with the summary
Quartile_new(values) ==
    IF Len(values) < 3 THEN [status |-> "err"] ELSE Quartile_sorted(Sort(values))

MinValueIgnoringOutliers(q) == q.min_before_lower_fence

\* Quartile::min_value
MinValue(q) ==
    IF q.lower_outliers = <<>> THEN q.min_before_lower_fence
    ELSE q.lower_outliers[1]

\* Quartile::max_value
MaxValue(q) ==
    IF q.upper_outliers = <<>> THEN q.max_before_upper_fence
    ELSE q.upper_outliers[Len(q.upper_outliers)]

---------------------------------------------------------------------------
(* lib.rs: process_chart_data *)

\* an Option: None is <<>>, Some(x) is <<x>>
None == <<>>
Some(x) == <<x>>

\* f64::MAX, and f64::MIN as its negation: a finite value beyond every input
F64_MAX == 1000000
Y_AXIS_NUM_INTERVALS == 20
GUTTER_TOP == 40
GUTTER_BOTTOM == 80
GUTTER_LEFT == 80
GUTTER_RIGHT == 80
Y_AXIS_HEIGHT == 400
BOX_PLOT_WIDTH == 60
OUTLIER_RADIUS == 2
X_LABEL_DROP == 15
Y_LABEL_INSET == 10
Y_LABEL_DROP == 5

PushFront(tuples, t) == <<t>> \o tuples

\* quartile_tuples.push(t)
Push(tuples, t) == Append(tuples, t)

\* if min_value < range.0 { range.0 = min_value }; the same for max_value
Widen(range, min_value, max_value) ==
    <<IF FLt(min_value, range[1]) THEN min_value ELSE range[1],
      IF FGt(max_value, range[2]) THEN max_value ELSE range[2]>>

\* the loop over cd.data from item i on: the first Err of Quartile::new is
\* returned by the ? operator
RECURSIVE ProcessItems(_, _, _, _)
RECURSIVE ProcessItem(_, _, _, _, _)
ProcessItem(data, i, tuples, range, quartile) ==
    IF quartile.status # "ok" THEN [status |-> quartile.status]
    ELSE ProcessItems(data, i + 1, Push(tuples, <<data[i].key, quartile>>),
                      Widen(range, MinValue(quartile), MaxValue(quartile)))

ProcessItems(data, i, tuples, range) ==
    IF i > Len(data)
    THEN [status |-> "ok", quartile_tuples |-> tuples, y_axis_range |-> range]
    ELSE ProcessItem(data, i, tuples, range, Quartile_new(data[i].values))

\* 10^ceil(log10(max - min)) / y_axis_num_intervals
YAxisInterval(range) ==
    FDiv(Pow10(CeilLog10(FSub(range[2], range[1]))), F(Y_AXIS_NUM_INTERVALS))

\* dps = interval.log10(); if dps < 0.0 { dps.abs().ceil() as usize } else { 0 }
\* log10 is negative exactly below 1, and ceil(-log10(x)) = ceil(log10(1/x))
YAxisDps(interval) ==
    IF IsNaN(interval) \/ interval.n < 0 THEN F(0)
    ELSE IF interval.n = 0 THEN AsUsize(FCeil(FAbs(NegInf)))
    ELSE IF FLt(interval, F(1)) THEN AsUsize(CeilLog10(FDiv(F(1), interval)))
    ELSE F(0)

\* (floor(min / interval) * interval, ceil(max / interval) * interval)
Snap(range, interval) ==
    <<FMul(FFloor(FDiv(range[1], interval)), interval),
      FMul(FCeil(FDiv(range[2], interval)), interval)>>

\* process_chart_data after the loop, with the interval chosen
RenderData(cd, items, y_axis_interval) ==
    [status |-> "ok",
     title |-> cd.title,
     units |-> cd.units,
     y_axis_height |-> F(Y_AXIS_HEIGHT),
     y_axis_range |-> Snap(items.y_axis_range, y_axis_interval),
     y_axis_interval |-> y_axis_interval,
     y_axis_dps |-> YAxisDps(y_axis_interval),
     gutter |-> [left |-> F(GUTTER_LEFT), top |-> F(GUTTER_TOP),
                 right |-> F(GUTTER_RIGHT), bottom |-> F(GUTTER_BOTTOM)],
     box_plot_width |-> F(BOX_PLOT_WIDTH),
     outlier_radius |-> F(OUTLIER_RADIUS),
     quartile_tuples |-> items.quartile_tuples]

\* process_chart_data after the loop
AxisPlan(cd, items) ==
    IF items.status # "ok" THEN [status |-> items.status]
    ELSE RenderData(cd, items, YAxisInterval(items.y_axis_range))

\* BoxPlotChartTool::process_chart_data
process_chart_data(cd) ==
    AxisPlan(cd, ProcessItems(cd.data, 1, <<>>, <<F(F64_MAX), F(-F64_MAX)>>))

---------------------------------------------------------------------------
(* lib.rs: render_chart *)

Width(rd) ==
    FAdd(FAdd(rd.gutter.left, FMul(F(Len(rd.quartile_tuples)), rd.box_plot_width)),
         rd.gutter.right)

Height(rd) == FAdd(FAdd(rd.gutter.top, rd.gutter.bottom), rd.y_axis_height)

\* ((max - min) / interval) as usize
YRange(rd) ==
    AsUsize(FDiv(FSub(rd.y_axis_range[2], rd.y_axis_range[1]), rd.y_axis_interval))

\* y_axis_height / (max - min)
YScale(rd) == FDiv(rd.y_axis_height, FSub(rd.y_axis_range[2], rd.y_axis_range[1]))

\* the closure scale: height - gutter.bottom - (n - min) * y_scale
Scale(rd, n) ==
    FSub(FSub(Height(rd), rd.gutter.bottom), FMul(FSub(n, rd.y_axis_range[1]), YScale(rd)))

\* the x of the i-th x-axis label (0-based):
\* gutter.left + i * box_plot_width + box_plot_width / 2
LabelX(rd, i) ==
    FAdd(FAdd(rd.gutter.left, FMul(F(i), rd.box_plot_width)),
         FDiv(rd.box_plot_width, F(2)))

\* the x of the i-th box plot (0-based):
\* gutter.left + box_plot_width / 2 + i * box_plot_width
BoxX(rd, i) ==
    FAdd(FAdd(rd.gutter.left, FDiv(rd.box_plot_width, F(2))),
         FMul(F(i), rd.box_plot_width))

XAxisLabels(rd) ==
    [j \in Indices(rd.quartile_tuples) |->
        [x |-> LabelX(rd, j - 1),
         y |-> FAdd(FSub(Height(rd), rd.gutter.bottom), F(X_LABEL_DROP)),
         text |-> rd.quartile_tuples[j][1]]]

\* the label of the tick n above the range's minimum; the text is the value
\* and its precision
YAxisLabel(rd, n) ==
    [x |-> FSub(rd.gutter.left, F(Y_LABEL_INSET)),
     y |-> FAdd(FSub(FSub(Height(rd), rd.gutter.bottom), FFloor(FMul(n, YScale(rd)))),
                F(Y_LABEL_DROP)),
     value |-> FAdd(n, rd.y_axis_range[1]),
     precision |-> rd.y_axis_dps]

\* one label per tick 0..=y_range
YAxisLabels(rd) ==
    [j \in 1..(YRange(rd).n + 1) |-> YAxisLabel(rd, FMul(F(j - 1), rd.y_axis_interval))]

M(x, y) == [op |-> "M", x |-> x, y |-> y]
M_(dx, dy) == [op |-> "m", x |-> dx, y |-> dy]
L(x, y) == [op |-> "L", x |-> x, y |-> y]
L_(dx, dy) == [op |-> "l", x |-> dx, y |-> dy]

BoxPathOpenBox(rd, x, y) ==
    LET box_width == FDiv(rd.box_plot_width, F(3))
        half_box_width == FDiv(box_width, F(2))
        whisker_width == FDiv(rd.box_plot_width, F(4))
        half_whisker_width == FDiv(whisker_width, F(2))
    IN  <<M(FSub(x, half_whisker_width), y[1]),
          L_(whisker_width, F(0)),
          M_(FNeg(half_whisker_width), F(0)),
          L(x, y[2]),
          M(FSub(x, half_box_width), y[3]),
          L(FSub(x, half_box_width), y[2]),
          L_(half_box_width, F(0)),
          L(FAdd(x, half_box_width), y[3]),
          L_(FNeg(box_width), F(0)),
          L(FSub(x, half_box_width), y[4]),
          L_(box_width, F(0)),
          L(FAdd(x, half_box_width), y[3]),
          M(x, y[4]),
          L(x, y[5]),
          M_(FNeg(half_whisker_width), F(0)),
          L_(whisker_width, F(0))>>

\* the pen commands of one box plot centred at x; y[1..5] are the mapped
\* heights of max_before_upper_fence, upper_median, median, lower_median and
\* min_before_lower_fence (y[0..4] in the source)
BoxPath(rd, x, y) ==
    LET box_width == FDiv(rd.box_plot_width, F(3))
        half_box_width == FDiv(box_width, F(2))
        whisker_width == FDiv(rd.box_plot_width, F(4))
        half_whisker_width == FDiv(whisker_width, F(2))
    IN  <<M(FSub(x, half_whisker_width), y[1]),
          L_(whisker_width, F(0)),
          M_(FNeg(half_whisker_width), F(0)),
          L(x, y[2]),
          M(FSub(x, half_box_width), y[3]),
          L(FSub(x, half_box_width), y[2]),
          L_(box_width, F(0)),
          L(FAdd(x, half_box_width), y[3]),
          L_(FNeg(box_width), F(0)),
          L(FSub(x, half_box_width), y[4]),
          L_(box_width, F(0)),
          L(FAdd(x, half_box_width), y[3]),
          M(x, y[4]),
          L(x, y[5]),
          M_(FNeg(half_whisker_width), F(0)),
          L_(whisker_width, F(0))>>

\* the mapped heights y of a summary
Heights(rd, quartile) ==
    <<Scale(rd, quartile.max_before_upper_fence),
      Scale(rd, quartile.upper_median),
      Scale(rd, quartile.median),
      Scale(rd, quartile.lower_median),
      Scale(rd, quartile.min_before_lower_fence)>>

\* the circles of a summary's outliers: the upper ones, then the lower ones
Outliers(rd, x, quartile) ==
    LET y_outliers == quartile.upper_outliers \o quartile.lower_outliers
    IN  [j \in Indices(y_outliers) |->
            [cx |-> x, cy |-> Scale(rd, y_outliers[j]), r |-> rd.outlier_radius]]

\* the group of one series: its outlier circles and its path
BoxPlot(rd, x, quartile) ==
    [outliers |-> Outliers(rd, x, quartile),
     path |-> BoxPath(rd, x, Heights(rd, quartile))]

BoxPlots(rd) ==
    [j \in Indices(rd.quartile_tuples) |->
        BoxPlot(rd, BoxX(rd, j - 1), rd.quartile_tuples[j][2])]

\* BoxPlotChartTool::render_chart: the scene that is rendered to the output
render_chart(rd) ==
    [width |-> Width(rd),
     height |-> Height(rd),
     axis |-> <<<<rd.gutter.left, rd.gutter.top>>,
                <<rd.gutter.left, FAdd(rd.gutter.top, rd.y_axis_height)>>,
                <<FSub(Width(rd), rd.gutter.right), FAdd(rd.gutter.top, rd.y_axis_height)>>>>,
     x_axis_labels |-> XAxisLabels(rd),
     y_axis_labels |-> YAxisLabels(rd),
     box_plots |-> BoxPlots(rd),
     title |-> [x |-> FDiv(Width(rd), F(2)), y |-> FDiv(rd.gutter.top, F(2)),
                text |-> <<rd.title, rd.units>>]]

---------------------------------------------------------------------------
(* Inputs *)

Vals(k) == {F(Samples[j]) : j \in 1..k}

\* the sample sets of exactly n values drawn from V
SeriesOfLen(V, n) == [1..n -> V]

\* the lists of sample sets holding at most total values together; a sample
\* set has at least 2 values, one less than Quartile::new asks for
RECURSIVE SeriesLists(_, _)
SeriesLists(V, total) ==
    {<<>>} \cup
    UNION {{<<s>> \o rest : s \in SeriesOfLen(V, n), rest \in SeriesLists(V, total - n)} :
           n \in 2..total}

KeyOf(j) == <<"series", j>>

\* the parsed document: the j-th item has the key KeyOf(j)
Chart(series) ==
    [title |-> "title", units |-> "units",
     data |-> [j \in Indices(series) |-> [key |-> KeyOf(j), values |-> series[j]]]]

\* tests::even_test
EvenTestValues == <<48, 52, 57, 64, 72, 76, 77, 81, 85, 88>>

\* tests::odd_test_with_outliers
OddTestValues == <<5, 6, 48, 52, 57, 61, 64, 72, 76, 77, 81, 85, 88>>

ToF64(s) == [j \in Indices(s) |-> F(s[j])]

\* the documents of the pipeline specification
Charts == {Chart(series) : series \in SeriesLists(Vals(NumVals), MaxTotal)}

\* the documents of the quartile specification: one sample set each
QCharts ==
    {Chart(<<s>>) : s \in UNION {SeriesOfLen(Vals(NumQVals), n) : n \in 0..MaxQLen}}
    \cup {Chart(<<ToF64(EvenTestValues)>>), Chart(<<ToF64(OddTestValues)>>)}

---------------------------------------------------------------------------
(* lib.rs: BoxPlotChartTool::run *)

VARIABLES
    pc,           \* the step run is at; "done" once it has returned
    input,        \* the document the input holds
    chart_data,   \* Option<ChartData>
    render_data,  \* Option<RenderData>
    output,       \* Option<String>: the rendered scene
    out_file,     \* the output destination: created, and what was written
    log,          \* what was given to BoxPlotChartLog::output
    result        \* what run returned: "Ok", an "Err: ..." or "Panic"

vars == <<pc, input, chart_data, render_data, output, out_file, log, result>>

StepsOutputFirst ==
    <<"get_output", "get_input", "read_chart_file", "process_chart_data", "render_chart",
      "write_svg_file">>

\* the fallible steps of run after the arguments are parsed, in program order
Steps ==
    <<"get_input", "read_chart_file", "process_chart_data", "render_chart", "get_output",
      "write_svg_file">>

StepIndex(step) == CHOOSE j \in Indices(Steps) : Steps[j] = step

\* run goes on to the next step, or returns Ok(()) after the last
Advance(step) ==
    LET j == StepIndex(step)
    IN  IF j = Len(Steps)
        THEN pc' = "done" /\ result' = "Ok"
        ELSE pc' = Steps[j + 1] /\ result' = result

\* the ? operator on an Err
Fail(err) == pc' = "done" /\ result' = err

Init ==
    /\ pc = "parse_args"
    /\ input \in Charts
    /\ chart_data = None
    /\ render_data = None
    /\ output = None
    /\ out_file = [created |-> FALSE, content |-> None]
    /\ log = <<>>
    /\ result = "Running"

InitQ ==
    /\ pc = "parse_args"
    /\ input \in QCharts
    /\ chart_data = None
    /\ render_data = None
    /\ output = None
    /\ out_file = [created |-> FALSE, content |-> None]
    /\ log = <<>>
    /\ result = "Running"

\* Cli::try_parse_from(args) is Ok
ParseArgsOk ==
    /\ pc = "parse_args"
    /\ pc' = Steps[1]
    /\ UNCHANGED <<input, chart_data, render_data, output, out_file, log, result>>

\* Cli::try_parse_from(args) is Err (--help, --version, a bad argument): the
\* message is logged and run returns Ok(())
ParseArgsErr ==
    /\ pc = "parse_args"
    /\ log' = Append(log, "usage")
    /\ pc' = "done"
    /\ result' = "Ok"
    /\ UNCHANGED <<input, chart_data, render_data, output, out_file>>

GetInputOk ==
    /\ pc = "get_input"
    /\ Advance("get_input")
    /\ UNCHANGED <<input, chart_data, render_data, output, out_file, log>>

\* File::open fails
GetInputErr ==
    /\ pc = "get_input"
    /\ Fail("Err: unable to open file")
    /\ UNCHANGED <<input, chart_data, render_data, output, out_file, log>>

ReadChartFileOk ==
    /\ pc = "read_chart_file"
    /\ chart_data' = Some(input)
    /\ Advance("read_chart_file")
    /\ UNCHANGED <<input, render_data, output, out_file, log>>

\* read_to_string or json5::from_str fails
ReadChartFileErr ==
    /\ pc = "read_chart_file"
    /\ Fail("Err: read")
    /\ UNCHANGED <<input, chart_data, render_data, output, out_file, log>>

\* let render_data = self.process_chart_data(&chart_data)?
ProcessChartDataReturn(rd) ==
    IF rd.status = "ok"
    THEN render_data' = Some(rd) /\ Advance("process_chart_data")
    ELSE /\ render_data' = render_data
         /\ Fail(IF rd.status = "err" THEN "Err: minimum of 3 values needed" ELSE "Panic")

ProcessChartData ==
    /\ pc = "process_chart_data"
    /\ ProcessChartDataReturn(process_chart_data(chart_data[1]))
    /\ UNCHANGED <<input, chart_data, output, out_file, log>>

RenderChart ==
    /\ pc = "render_chart"
    /\ output' = Some(render_chart(render_data[1]))
    /\ Advance("render_chart")
    /\ UNCHANGED <<input, chart_data, render_data, out_file, log>>

\* File::create or stdout: the destination exists, and is empty, from here on
GetOutputOk ==
    /\ pc = "get_output"
    /\ out_file' = [created |-> TRUE, content |-> None]
    /\ Advance("get_output")
    /\ UNCHANGED <<input, chart_data, render_data, output, log>>

\* File::create fails
GetOutputErr ==
    /\ pc = "get_output"
    /\ Fail("Err: unable to create file")
    /\ UNCHANGED <<input, chart_data, render_data, output, out_file, log>>

WriteSvgFileOk ==
    /\ pc = "write_svg_file"
    /\ out_file' = [out_file EXCEPT !.content = output]
    /\ Advance("write_svg_file")
    /\ UNCHANGED <<input, chart_data, render_data, output, log>>

\* write! fails
WriteSvgFileErr ==
    /\ pc = "write_svg_file"
    /\ Fail("Err: write")
    /\ UNCHANGED <<input, chart_data, render_data, output, out_file, log>>

Next ==
    \/ ParseArgsOk
    \/ ParseArgsErr
    \/ GetInputOk
    \/ GetInputErr
    \/ ReadChartFileOk
    \/ ReadChartFileErr
    \/ ProcessChartData
    \/ RenderChart
    \/ GetOutputOk
    \/ GetOutputErr
    \/ WriteSvgFileOk
    \/ WriteSvgFileErr

\* the pipeline on charts of several series
Spec == Init /\ [][Next]_vars

\* the pipeline on charts of one series, for the properties of Quartile::new
QSpec == InitQ /\ [][Next]_vars

---------------------------------------------------------------------------
(* Properties: shared definitions *)

\* process_chart_data has returned Ok
Processed == render_data # None

RD == render_data[1]

NumSeries == Len(input.data)

\* the values of the j-th series of the input, and the summary kept for it
ValuesOf(j) == input.data[j].values
QuartileOf(j) == RD.quartile_tuples[j][2]

SeqRange(s) == {s[i] : i \in Indices(s)}

Count(s, x) == Cardinality({i \in Indices(s) : s[i] = x})

AllValues == UNION {SeqRange(ValuesOf(j)) : j \in 1..NumSeries}

\* the k-th smallest (0-based) of the values s, by counting
OrderStat(s, k) ==
    CHOOSE v \in SeqRange(s) :
        /\ Cardinality({i \in Indices(s) : FLt(s[i], v)}) <= k
        /\ k < Cardinality({i \in Indices(s) : FLe(s[i], v)})

\* s with the values at j and j + 1 exchanged
Swap(s, j) ==
    [i \in Indices(s) |-> IF i = j THEN s[j + 1] ELSE IF i = j + 1 THEN s[j] ELSE s[i]]

---------------------------------------------------------------------------
(* C1 *)

Partitioned(values, q) ==
    /\ \A i \in Indices(q.lower_outliers) : FLt(q.lower_outliers[i], q.lower_fence)
    /\ \A i \in Indices(q.upper_outliers) : FGt(q.upper_outliers[i], q.upper_fence)
    /\ \A x \in SeqRange(values) :
        /\ Count(q.lower_outliers, x) = (IF FLt(x, q.lower_fence) THEN Count(values, x) ELSE 0)
        /\ Count(q.upper_outliers, x) = (IF FGt(x, q.upper_fence) THEN Count(values, x) ELSE 0)

\* C1: for every sample set of 3 or more values the lower outliers are below
\* the lower fence, the upper outliers are above the upper fence, and the
\* outliers are exactly the input values outside the fences (as multisets), so
\* that outliers and body together are the input.
C1_OutliersPartitionInput ==
    Processed => \A j \in 1..NumSeries : Partitioned(ValuesOf(j), QuartileOf(j))

---------------------------------------------------------------------------
(* C2 *)

LandmarksOrdered(q) ==
    /\ FLe(q.min_before_lower_fence, q.lower_median)
    /\ FLe(q.lower_median, q.median)
    /\ FLe(q.median, q.upper_median)
    /\ FLe(q.upper_median, q.max_before_upper_fence)

---------------------------------------------------------------------------
(* C3 *)

BodyExtremes(values, q) ==
    /\ q.min_before_lower_fence \in SeqRange(values)
    /\ q.max_before_upper_fence \in SeqRange(values)
    /\ FLe(q.lower_fence, q.min_before_lower_fence)
    /\ FLe(q.max_before_upper_fence, q.upper_fence)
    /\ \A v \in SeqRange(values) :
        /\ FLe(q.lower_fence, v) => FLe(q.min_before_lower_fence, v)
        /\ FLe(v, q.upper_fence) => FLe(v, q.max_before_upper_fence)

\* C3: min_before_lower_fence and max_before_upper_fence are members of the
\* input; the first is the smallest input value not below lower_fence and the
\* second the largest input value not above upper_fence.
C3_WhiskerEndsAreBodyExtremes ==
    Processed => \A j \in 1..NumSeries : BodyExtremes(ValuesOf(j), QuartileOf(j))

---------------------------------------------------------------------------
(* C4 *)

\* the indices the claim lists, from the length and the outlier lists alone
ClaimedIndices(len, q) ==
    (IF len % 2 = 0
     THEN {len \div 2 - 1, len \div 2 + (len \div 2) \div 2}
     ELSE {len \div 2 + 1 + (len \div 2) \div 2})
    \cup {(len \div 2) \div 2, Len(q.lower_outliers), len - Len(q.upper_outliers) - 1}

\* C4: Quartile::new returns an error exactly when the sample set has fewer
\* than 3 values; for 3 or more it returns a summary and every index it uses is
\* within the sorted array (no panic).
C4_ErrIffFewerThanThree ==
    /\ result # "Panic"
    /\ result = "Err: minimum of 3 values needed" => \E j \in 1..NumSeries : Len(ValuesOf(j)) < 3
    /\ Processed =>
        \A j \in 1..NumSeries :
            /\ Len(ValuesOf(j)) >= 3
            /\ QuartileOf(j).status = "ok"
            /\ ClaimedIndices(Len(ValuesOf(j)), QuartileOf(j)) \subseteq 0..(Len(ValuesOf(j)) - 1)
            /\ ClaimedIndices(Len(ValuesOf(j)), QuartileOf(j)) \subseteq QuartileIndices(Sort(ValuesOf(j)))
            /\ QuartileIndices(Sort(ValuesOf(j))) \subseteq 0..(Len(ValuesOf(j)) - 1)

\* a sample set of exactly 3 values was summarised
C4_Witness == Processed /\ \E j \in 1..NumSeries : Len(ValuesOf(j)) = 3

---------------------------------------------------------------------------
(* C5 *)

LandmarksByRank(values, q) ==
    LET n == Len(values)
        mid == n \div 2
    IN  /\ q.lower_median = OrderStat(values, mid \div 2)
        /\ n % 2 = 0 =>
            /\ q.median = FDiv(FAdd(OrderStat(values, mid - 1), OrderStat(values, mid)), F(2))
            /\ q.upper_median = OrderStat(values, mid + mid \div 2)
        /\ n % 2 = 1 =>
            /\ q.median = OrderStat(values, mid)
            /\ q.upper_median = OrderStat(values, mid + 1 + mid \div 2)
        /\ q.iqr = FSub(q.upper_median, q.lower_median)
        /\ q.lower_fence = FSub(q.lower_median, FMul(Rat(3, 2), q.iqr))
        /\ q.upper_fence = FAdd(q.upper_median, FMul(Rat(3, 2), q.iqr))

\* what tests::even_test asserts
EvenTestExpected(q) ==
    /\ q.iqr = F(24) /\ q.median = F(74)
    /\ q.lower_median = F(57) /\ q.upper_median = F(81)
    /\ q.lower_fence = F(21) /\ q.upper_fence = F(117)
    /\ q.min_before_lower_fence = F(48) /\ q.max_before_upper_fence = F(88)
    /\ q.lower_outliers = <<>> /\ q.upper_outliers = <<>>
    /\ MinValue(q) = F(48) /\ MaxValue(q) = F(88)

\* what tests::odd_test_with_outliers asserts
OddTestExpected(q) ==
    /\ q.iqr = F(29) /\ q.median = F(64)
    /\ q.lower_median = F(52) /\ q.upper_median = F(81)
    /\ q.lower_fence = Rat(17, 2) /\ q.upper_fence = Rat(249, 2)
    /\ q.min_before_lower_fence = F(48) /\ q.max_before_upper_fence = F(88)
    /\ q.lower_outliers = <<F(5), F(6)>> /\ q.upper_outliers = <<>>
    /\ MinValue(q) = F(5) /\ MaxValue(q) = F(88)

\* C5: with arr the values in ascending order and mid = n div 2, lower_median
\* is arr[mid div 2]; median and upper_median are (arr[mid-1] + arr[mid]) / 2
\* and arr[mid + mid div 2] for even n, arr[mid] and arr[mid + 1 + mid div 2]
\* for odd n; iqr and the fences follow; the summary does not depend on the
\* order of the input; the two tests' expected values hold.
C5_LandmarksByRank ==
    Processed =>
        \A j \in 1..NumSeries :
            /\ LandmarksByRank(ValuesOf(j), QuartileOf(j))
            /\ \A i \in 1..(Len(ValuesOf(j)) - 1) :
                   Quartile_new(Swap(ValuesOf(j), i)) = QuartileOf(j)
            /\ ValuesOf(j) = ToF64(EvenTestValues) => EvenTestExpected(QuartileOf(j))
            /\ ValuesOf(j) = ToF64(OddTestValues) => OddTestExpected(QuartileOf(j))

\* an even sized sample set that was given out of order
C5_Witness ==
    /\ Processed
    /\ \E j \in 1..NumSeries :
        /\ Len(ValuesOf(j)) % 2 = 0
        /\ \E i \in 1..(Len(ValuesOf(j)) - 1) : FGt(ValuesOf(j)[i], ValuesOf(j)[i + 1])

---------------------------------------------------------------------------
(* C6 *)

SomeSeriesShort == \E j \in 1..NumSeries : Len(ValuesOf(j)) < 3

\* C6: if any series of the input has fewer than 3 values, run returns that
\* error, no chart is rendered and the output is never created; the output
\* is created only after every series was summarised and the chart rendered,
\* and what is written is the rendered chart.
C6_FailsAtomically ==
    /\ (chart_data # None /\ SomeSeriesShort) =>
        /\ render_data = None /\ output = None
        /\ ~out_file.created /\ out_file.content = None
        /\ pc = "done" => result = "Err: minimum of 3 values needed"
    /\ out_file.created =>
        /\ ~SomeSeriesShort
        /\ Processed /\ Len(RD.quartile_tuples) = NumSeries
        /\ output # None
    /\ out_file.content # None => out_file.created /\ out_file.content = output

\* run has failed, without output, on a chart whose first series has 3 or
\* more values and whose second series has fewer
C6_Witness ==
    /\ pc = "done" /\ result = "Err: minimum of 3 values needed"
    /\ ~out_file.created /\ output = None
    /\ NumSeries >= 2 /\ Len(ValuesOf(1)) >= 3 /\ Len(ValuesOf(2)) < 3

---------------------------------------------------------------------------
(* C7 *)

ZeroSpan == NumSeries >= 1 /\ Cardinality(AllValues) = 1

\* C7: when all values of all series are equal the planner falls back to a
\* positive finite interval, a finite precision and a finite range with
\* range_max > range_min, so that the scale does not divide by zero.
C7_ZeroSpanFallsBack ==
    (Processed /\ ZeroSpan) =>
        /\ IsFinite(RD.y_axis_interval) /\ FGt(RD.y_axis_interval, F(0))
        /\ IsFinite(RD.y_axis_dps)
        /\ IsFinite(RD.y_axis_range[1]) /\ IsFinite(RD.y_axis_range[2])
        /\ FLt(RD.y_axis_range[1], RD.y_axis_range[2])
        /\ IsFinite(YScale(RD))

---------------------------------------------------------------------------
(* C8 *)

IsMultipleOf(x, interval) == IsFinite(FDiv(x, interval)) /\ FDiv(x, interval).d = 1

\* lo and hi are the least and the greatest of the set of values V
IsLeast(lo, V) == lo \in V /\ \A v \in V : FLe(lo, v)
IsGreatest(hi, V) == hi \in V /\ \A v \in V : FLe(v, hi)

RangeSnapsAround(lo, hi, range, interval) ==
    /\ IsFinite(interval) /\ FGt(interval, F(0))
    /\ IsMultipleOf(range[1], interval) /\ IsMultipleOf(range[2], interval)
    /\ FLe(range[1], lo) /\ FLt(lo, FAdd(range[1], interval))
    /\ FLe(hi, range[2]) /\ FLt(FSub(range[2], interval), hi)

---------------------------------------------------------------------------
(* C9 *)

Scene == output[1]

\* left_gutter + slot_width * i + slot_width / 2
SlotCenter(i) ==
    FAdd(FAdd(F(GUTTER_LEFT), FMul(F(BOX_PLOT_WIDTH), F(i))), FDiv(F(BOX_PLOT_WIDTH), F(2)))

\* the x of the stem of a group's path: its fourth command, L(x, y[1])
StemX(group) == group.path[4].x

\* C9: the chart of k series has exactly k x-axis labels and k box-plot
\* groups; the i-th label and the i-th group are those of the i-th input
\* series and both are placed at slot_center(i).
C9_DisplayOrderIsInputOrder ==
    output # None =>
        /\ Len(Scene.x_axis_labels) = NumSeries
        /\ Len(Scene.box_plots) = NumSeries
        /\ \A j \in 1..NumSeries :
            /\ Scene.x_axis_labels[j].text = input.data[j].key
            /\ Scene.x_axis_labels[j].x = SlotCenter(j - 1)
            /\ StemX(Scene.box_plots[j]) = SlotCenter(j - 1)
            /\ Scene.box_plots[j] =
                   BoxPlot(RD, SlotCenter(j - 1), Quartile_new(ValuesOf(j)))

\* a chart of two series whose groups differ, the first with the greater median
C9_Witness ==
    /\ output # None /\ NumSeries = 2
    /\ FGt(QuartileOf(1).median, QuartileOf(2).median)
    /\ Scene.box_plots[1].path[5].y # Scene.box_plots[2].path[5].y

---------------------------------------------------------------------------
(* C10 *)

\* the segments drawn by the commands of path from the i-th on, the pen being
\* at pen: M and L are absolute, m and l relative to the pen; L and l draw
RECURSIVE Drawn(_, _, _, _)
Drawn(path, i, pen, segments) ==
    IF i > Len(path) THEN segments
    ELSE LET c == path[i]
             to == IF c.op \in {"M", "L"} THEN <<c.x, c.y>>
                   ELSE <<FAdd(pen[1], c.x), FAdd(pen[2], c.y)>>
         IN  Drawn(path, i + 1, to,
                   IF c.op \in {"L", "l"} THEN Append(segments, <<pen, to>>) ELSE segments)

\* the segments of a box plot centred at x with the heights y[1..5], half the
\* whisker width hw and half the box width hb
ExpectedSegments(x, y, hw, hb) ==
    << <<<<FSub(x, hw), y[1]>>, <<FAdd(x, hw), y[1]>>>>,
       <<<<x, y[1]>>, <<x, y[2]>>>>,
       <<<<FSub(x, hb), y[3]>>, <<FSub(x, hb), y[2]>>>>,
       <<<<FSub(x, hb), y[2]>>, <<FAdd(x, hb), y[2]>>>>,
       <<<<FAdd(x, hb), y[2]>>, <<FAdd(x, hb), y[3]>>>>,
       <<<<FAdd(x, hb), y[3]>>, <<FSub(x, hb), y[3]>>>>,
       <<<<FSub(x, hb), y[3]>>, <<FSub(x, hb), y[4]>>>>,
       <<<<FSub(x, hb), y[4]>>, <<FAdd(x, hb), y[4]>>>>,
       <<<<FAdd(x, hb), y[4]>>, <<FAdd(x, hb), y[3]>>>>,
       <<<<x, y[4]>>, <<x, y[5]>>>>,
       <<<<FSub(x, hw), y[5]>>, <<FAdd(x, hw), y[5]>>>> >>

\* C10: executing the path's pen commands in order draws the upper cap of
\* length whisker_width centred on x at y[0] and the stem to y[1]; the box
\* outline from (x - box_width/2, y[2]) around the upper and the lower
\* rectangle, every segment starting where the previous one ended, back to
\* (x + box_width/2, y[2]); and the lower stem from y[3] to y[4] with its cap.
C10_PathDrawsBoxAndWhiskers ==
    output # None =>
        \A j \in 1..NumSeries :
            Drawn(Scene.box_plots[j].path, 1, <<F(0), F(0)>>, <<>>) =
                ExpectedSegments(SlotCenter(j - 1), Heights(RD, QuartileOf(j)),
                                 FDiv(FDiv(F(BOX_PLOT_WIDTH), F(4)), F(2)),
                                 FDiv(FDiv(F(BOX_PLOT_WIDTH), F(3)), F(2)))

\* a rendered box plot whose five heights are all different
C10_Witness ==
    /\ output # None
    /\ \E j \in 1..NumSeries :
        \A a, b \in 1..5 :
            a < b => FLt(Heights(RD, QuartileOf(j))[a], Heights(RD, QuartileOf(j))[b])

===========================================================================
